---- MODULE Spec2Model ----
(***************************************************************************)
(* Readers-writers coordinator with selectable priority (src/n3.cpp,       *)
(* class ReadersWriters) driven by the reader()/writer() worker loops.     *)
(*                                                                         *)
(* Every method body runs under the single mutex mtx, so a method is one   *)
(* atomic step, except that cv.wait(lock, pred) releases the mutex while   *)
(* the caller is suspended: start_read/start_write are therefore split at  *)
(* the wait into the entry step and the re-check step taken after a wake.  *)
(* A suspended caller is "waiting" (parked on its condition variable) or   *)
(* "notified" (unparked, about to re-take the mutex and re-test the        *)
(* predicate lambda it was suspended with).                                *)
(***************************************************************************)
EXTENDS Integers, Sequences, FiniteSets, TLC

\* Size of the workload: worker threads, and rounds per worker where the
\* workload is finite.
NumWorkers == 4
MaxRounds == 1

\* Writer threads beyond the workers, which call only where a crowd of
\* writers is wanted.
ExtraWriters == 1

\* Size of the film filter's input (src/n2.cpp): the longest film list, and
\* the largest thread count main passes on.
MaxFilms == 4
MaxThreads == 16

\* Size of the barrier test (src/n1.cpp): the threads of the barrier, which
\* is its count, and the rounds of each thread.
Count == 3
OperationsPerThread == 3

\* Workers with an odd id run reader(), workers with an even id writer().
Threads == 1..NumWorkers
\* Every thread that has a reference to the coordinator.
Callers == 1..(NumWorkers + ExtraWriters)
Readers == {t \in Threads : t % 2 = 1}
Writers == {t \in Callers : t % 2 = 0 \/ t > NumWorkers}

\* enum class Priority
Priority == {"READERS", "WRITERS", "FAIR"}

VARIABLES
    active_readers,   \* int active_readers
    waiting_readers,  \* int waiting_readers
    active_writers,   \* int active_writers
    waiting_writers,  \* int waiting_writers
    priority,         \* Priority priority
    writer_active,    \* bool writer_active
    request_queue,    \* std::queue<bool>: TRUE - writer, FALSE - reader
    pc,               \* per thread: "idle", "waiting", "notified", "active"
    branch,           \* per suspended thread: the branch whose lambda it waits on
    rounds,           \* per thread: loop counter i of reader()/writer()
    arrived,          \* history: suspended callers in order of their call
    passed,           \* history: per holder, callers that called earlier and
                      \* were still suspended when the holder was granted
    status,           \* the line print_status wrote last, as a record
    films,            \* n2.cpp: films[i] as hasDirector(films[i], targetDirector)
    numThreads,       \* n2.cpp: int numThreads of processWithThreads
    chunkSize,        \* n2.cpp: size_t chunkSize
    threads,          \* n2.cpp: the workers started and not yet done, by index i
    result,           \* n2.cpp: the shared result, as positions in films
    filter_pc,        \* n2.cpp: where processWithThreads stands
    recording,        \* history: what this behaviour keeps: "off" - nothing,
                      \* "calls" - arrived and passed, "tickets" - owners
    owners,           \* history: the callers that pushed the tickets of
                      \* request_queue, in the order of the tickets
    waiting,          \* n1.cpp: int waiting of SimpleBarrier
    generation,       \* n1.cpp: int generation of SimpleBarrier
    gen,              \* n1.cpp: per thread, the local gen of wait()
    bar_pc,           \* n1.cpp: per thread: "loop", "waiting", "notified"
    ops_done          \* n1.cpp: per thread, the loop counter i of the worker

lockState == <<active_readers, waiting_readers, active_writers, waiting_writers,
               priority, writer_active, request_queue>>
\* The state outside the coordinator and its callers.
filterState == <<films, numThreads, chunkSize, threads, result, filter_pc>>
barrierState == <<waiting, generation, gen, bar_pc, ops_done>>
outside == <<status, filterState, recording, barrierState>>
vars == <<active_readers, waiting_readers, active_writers, waiting_writers,
          priority, writer_active, request_queue, pc, branch, rounds,
          arrived, passed, owners, outside>>

----------------------------------------------------------------------------
\* Helpers on sequences of thread ids.
Range(s) == {s[i] : i \in 1..Len(s)}
Before(s, t) == {s[i] : i \in {j \in 1..Len(s) : \A k \in 1..j : s[k] # t}}
Remove(s, t) == SelectSeq(s, LAMBDA x : x # t)

\* The callers parked on a condition variable whose threads are cls.
Parked(p, cls) == {t \in cls : p[t] = "waiting"}

\* condition_variable::notify_all: every parked caller is unparked.
NotifyAll(p, cls) ==
    [t \in Callers |-> IF t \in cls /\ p[t] = "waiting" THEN "notified" ELSE p[t]]

\* condition_variable::notify_one: one parked caller, any of them, is
\* unparked; nothing happens when none is parked.  The set of outcomes.
NotifyOne(p, cls) ==
    IF Parked(p, cls) = {} THEN {p}
    ELSE {[p EXCEPT ![t] = "notified"] : t \in Parked(p, cls)}

----------------------------------------------------------------------------
\* ReadPred with the FAIR lambda admitting one reader at a time.
ReadPredFairOneAtATime(b, q) ==
    IF b = "FAIR" THEN ~writer_active /\ active_readers = 0 /\ q # <<>> /\ ~Head(q)
    ELSE IF b = "READERS" THEN ~writer_active
    ELSE ~writer_active /\ waiting_writers = 0

\* ReadPred with the WRITERS lambda testing active_writers where the code
\* tests waiting_writers.
ReadPredTestsActiveWriters(b, q) ==
    IF b = "FAIR" THEN ~writer_active /\ q # <<>> /\ ~Head(q)
    ELSE IF b = "READERS" THEN ~writer_active
    ELSE ~writer_active /\ active_writers = 0

\* ReadPred with the FAIR lambda not testing the kind of the head ticket.
ReadPredFairAnyHead(b, q) ==
    IF b = "FAIR" THEN ~writer_active /\ q # <<>>
    ELSE IF b = "READERS" THEN ~writer_active
    ELSE ~writer_active /\ waiting_writers = 0

\* ReadPred with the READERS lambda not testing writer_active.
ReadPredIgnoresWriter(b, q) ==
    IF b = "FAIR" THEN ~writer_active /\ q # <<>> /\ ~Head(q)
    ELSE IF b = "READERS" THEN TRUE
    ELSE ~writer_active /\ waiting_writers = 0

\* ReadPred with the WRITERS lambda not testing waiting_writers.
ReadPredIgnoresWaitingWriters(b, q) ==
    IF b = "FAIR" THEN ~writer_active /\ q # <<>> /\ ~Head(q)
    ELSE ~writer_active

\* ReadPred with the READERS lambda deferring to waiting writers.
ReadPredDefersToWriters(b, q) ==
    IF b = "FAIR" THEN ~writer_active /\ q # <<>> /\ ~Head(q)
    ELSE ~writer_active /\ waiting_writers = 0

\* WritePred with the READERS and WRITERS lambdas not testing writer_active.
WritePredIgnoresWriter(b, q) ==
    IF b = "FAIR" THEN ~writer_active /\ active_readers = 0 /\ q # <<>> /\ Head(q)
    ELSE active_readers = 0

\* The predicate lambdas of start_read, by the branch b that created them,
\* evaluated on the queue q.
ReadPred(b, q) ==
    IF b = "FAIR" THEN ~writer_active /\ q # <<>> /\ ~Head(q)
    ELSE IF b = "READERS" THEN ~writer_active
    ELSE ~writer_active /\ waiting_writers = 0

\* WritePred with the FAIR lambda not testing the kind of the head ticket.
WritePredFairAnyHead(b, q) ==
    IF b = "FAIR" THEN ~writer_active /\ active_readers = 0 /\ q # <<>>
    ELSE IF b = "READERS" THEN ~writer_active /\ active_readers = 0
    ELSE ~writer_active /\ active_readers = 0

\* WritePred with the READERS lambda deferring to waiting readers.
WritePredDefersToReaders(b, q) ==
    IF b = "FAIR" THEN ~writer_active /\ active_readers = 0 /\ q # <<>> /\ Head(q)
    ELSE IF b = "READERS"
    THEN ~writer_active /\ active_readers = 0 /\ waiting_readers = 0
    ELSE ~writer_active /\ active_readers = 0

\* The predicate lambdas of start_write.
WritePred(b, q) ==
    IF b = "FAIR" THEN ~writer_active /\ active_readers = 0 /\ q # <<>> /\ Head(q)
    ELSE IF b = "READERS" THEN ~writer_active /\ active_readers = 0
    ELSE ~writer_active /\ active_readers = 0

\* History of tickets, for a step of caller t inside start_read or
\* start_write: a call under FAIR appends t as the owner of the ticket it
\* pushes, a grant in the FAIR branch removes the owner of the ticket popped.
NoteTicket(t) ==
    owners' =
        IF recording # "tickets" THEN owners
        ELSE LET b == IF pc[t] = "idle" THEN priority ELSE branch[t]
                 o == IF pc[t] = "idle" /\ b = "FAIR" THEN Append(owners, t)
                      ELSE owners
             IN  IF pc'[t] = "active" /\ b = "FAIR" THEN Tail(o) ELSE o

\* ReadGranted decrementing waiting_readers in the FAIR branch too.
ReadGrantedAlwaysDecrements(t, b, q, wr) ==
    /\ request_queue' = IF b = "FAIR" THEN Tail(q) ELSE q
    /\ waiting_readers' = wr - 1
    /\ active_readers' = active_readers + 1
    /\ pc' = [pc EXCEPT ![t] = "active"]
    /\ branch' = [branch EXCEPT ![t] = "none"]
    /\ passed' = IF recording = "calls" THEN [passed EXCEPT ![t] = Before(arrived, t)] ELSE passed
    /\ arrived' = IF recording = "calls" THEN Remove(arrived, t) ELSE arrived
    /\ UNCHANGED <<active_writers, waiting_writers, priority, writer_active, outside>>

\* The code of start_read after its wait has returned: the ticket is popped
\* (FAIR branch) or waiting_readers is decremented, then active_readers++.
\* wr is waiting_readers as the branch left it before the wait.
ReadGranted(t, b, q, wr) ==
    /\ request_queue' = IF b = "FAIR" THEN Tail(q) ELSE q
    /\ waiting_readers' = IF b = "FAIR" THEN wr ELSE wr - 1
    /\ active_readers' = active_readers + 1
    /\ pc' = [pc EXCEPT ![t] = "active"]
    /\ branch' = [branch EXCEPT ![t] = "none"]
    /\ passed' = IF recording = "calls" THEN [passed EXCEPT ![t] = Before(arrived, t)] ELSE passed
    /\ arrived' = IF recording = "calls" THEN Remove(arrived, t) ELSE arrived
    /\ UNCHANGED <<active_writers, waiting_writers, priority, writer_active, outside>>

\* start_read up to the first test of the wait predicate.
start_read(t) ==
    /\ t \in Readers
    /\ pc[t] = "idle"
    /\ LET b == priority
           q == IF b = "FAIR" THEN Append(request_queue, FALSE) ELSE request_queue
           wr == IF b = "FAIR" THEN waiting_readers ELSE waiting_readers + 1
       IN  IF ReadPred(b, q)
           THEN ReadGranted(t, b, q, wr)
           ELSE /\ request_queue' = q
                /\ waiting_readers' = wr
                /\ pc' = [pc EXCEPT ![t] = "waiting"]
                /\ branch' = [branch EXCEPT ![t] = b]
                /\ arrived' = IF recording = "calls" THEN Append(arrived, t) ELSE arrived
                /\ UNCHANGED <<active_readers, active_writers, waiting_writers,
                               priority, writer_active, passed, outside>>
    /\ NoteTicket(t)

\* resume_read with the READERS and WRITERS branches waiting without a
\* predicate: any wake-up ends the wait.
ResumeReadWithoutRetest(t) ==
    /\ t \in Readers
    /\ pc[t] = "notified"
    /\ IF branch[t] # "FAIR" \/ ReadPred(branch[t], request_queue)
       THEN ReadGranted(t, branch[t], request_queue, waiting_readers)
       ELSE /\ pc' = [pc EXCEPT ![t] = "waiting"]
            /\ UNCHANGED <<lockState, branch, arrived, passed, outside>>
    /\ UNCHANGED rounds
    /\ NoteTicket(t)

\* A notified reader re-takes the mutex and tests its predicate again.
resume_read(t) ==
    /\ t \in Readers
    /\ pc[t] = "notified"
    /\ IF ReadPred(branch[t], request_queue)
       THEN ReadGranted(t, branch[t], request_queue, waiting_readers)
       ELSE /\ pc' = [pc EXCEPT ![t] = "waiting"]
            /\ UNCHANGED <<lockState, branch, arrived, passed, outside>>
    /\ UNCHANGED rounds
    /\ NoteTicket(t)

\* EndReadWake without the notify_one of the last reader out.
EndReadWakeForgetsWriter(p, ar) ==
    IF priority = "FAIR" /\ request_queue # <<>>
    THEN IF Head(request_queue) THEN NotifyOne(p, Writers)
         ELSE {NotifyAll(p, Readers)}
    ELSE {p}

\* EndReadWake signalling cv_write for the last reader only outside FAIR.
EndReadWakeHeadOnlyInFair(p, ar) ==
    LET first == IF ar = 0 /\ priority # "FAIR" THEN NotifyOne(p, Writers) ELSE {p}
        second(p1) ==
            IF priority = "FAIR" /\ request_queue # <<>>
            THEN IF Head(request_queue) THEN NotifyOne(p1, Writers)
                 ELSE {NotifyAll(p1, Readers)}
            ELSE {p1}
    IN  UNION {second(p1) : p1 \in first}

\* The notifications of end_read; p is pc with the caller back in its loop,
\* ar is active_readers after the decrement.
EndReadWake(p, ar) ==
    LET first == IF ar = 0 THEN NotifyOne(p, Writers) ELSE {p}
        second(p1) ==
            IF priority = "FAIR" /\ request_queue # <<>>
            THEN IF Head(request_queue) THEN NotifyOne(p1, Writers)
                 ELSE {NotifyAll(p1, Readers)}
            ELSE {p1}
    IN  UNION {second(p1) : p1 \in first}

end_read(t) ==
    /\ t \in Readers
    /\ pc[t] = "active"
    /\ active_readers' = active_readers - 1
    /\ pc' \in EndReadWake([pc EXCEPT ![t] = "idle"], active_readers - 1)
    /\ passed' = IF recording = "calls" THEN [passed EXCEPT ![t] = {}] ELSE passed
    /\ UNCHANGED <<waiting_readers, active_writers, waiting_writers, priority,
                   writer_active, request_queue, branch, rounds, arrived, outside>>
    /\ UNCHANGED owners

\* WriteGranted without writer_active = true.
WriteGrantedLeavesFlag(t, b, q, ww) ==
    /\ request_queue' = IF b = "FAIR" THEN Tail(q) ELSE q
    /\ waiting_writers' = IF b = "FAIR" THEN ww ELSE ww - 1
    /\ writer_active' = writer_active
    /\ active_writers' = active_writers + 1
    /\ pc' = [pc EXCEPT ![t] = "active"]
    /\ branch' = [branch EXCEPT ![t] = "none"]
    /\ passed' = IF recording = "calls" THEN [passed EXCEPT ![t] = Before(arrived, t)] ELSE passed
    /\ arrived' = IF recording = "calls" THEN Remove(arrived, t) ELSE arrived
    /\ UNCHANGED <<active_readers, waiting_readers, priority, outside>>

\* WriteGranted decrementing waiting_writers in the FAIR branch too.
WriteGrantedAlwaysDecrements(t, b, q, ww) ==
    /\ request_queue' = IF b = "FAIR" THEN Tail(q) ELSE q
    /\ waiting_writers' = ww - 1
    /\ writer_active' = TRUE
    /\ active_writers' = active_writers + 1
    /\ pc' = [pc EXCEPT ![t] = "active"]
    /\ branch' = [branch EXCEPT ![t] = "none"]
    /\ passed' = IF recording = "calls" THEN [passed EXCEPT ![t] = Before(arrived, t)] ELSE passed
    /\ arrived' = IF recording = "calls" THEN Remove(arrived, t) ELSE arrived
    /\ UNCHANGED <<active_readers, waiting_readers, priority, outside>>

\* The code of start_write after its wait has returned: the ticket is popped
\* (FAIR branch) or waiting_writers is decremented, then writer_active = true
\* and active_writers++.
WriteGranted(t, b, q, ww) ==
    /\ request_queue' = IF b = "FAIR" THEN Tail(q) ELSE q
    /\ waiting_writers' = IF b = "FAIR" THEN ww ELSE ww - 1
    /\ writer_active' = TRUE
    /\ active_writers' = active_writers + 1
    /\ pc' = [pc EXCEPT ![t] = "active"]
    /\ branch' = [branch EXCEPT ![t] = "none"]
    /\ passed' = IF recording = "calls" THEN [passed EXCEPT ![t] = Before(arrived, t)] ELSE passed
    /\ arrived' = IF recording = "calls" THEN Remove(arrived, t) ELSE arrived
    /\ UNCHANGED <<active_readers, waiting_readers, priority, outside>>

\* start_write up to the first test of the wait predicate.
start_write(t) ==
    /\ t \in Writers
    /\ pc[t] = "idle"
    /\ LET b == priority
           q == IF b = "FAIR" THEN Append(request_queue, TRUE) ELSE request_queue
           ww == IF b = "FAIR" THEN waiting_writers ELSE waiting_writers + 1
       IN  IF WritePred(b, q)
           THEN WriteGranted(t, b, q, ww)
           ELSE /\ request_queue' = q
                /\ waiting_writers' = ww
                /\ pc' = [pc EXCEPT ![t] = "waiting"]
                /\ branch' = [branch EXCEPT ![t] = b]
                /\ arrived' = IF recording = "calls" THEN Append(arrived, t) ELSE arrived
                /\ UNCHANGED <<active_readers, waiting_readers, active_writers,
                               priority, writer_active, passed, outside>>
    /\ NoteTicket(t)

\* resume_write testing the lambda of the priority now in force.
ResumeWriteUnderCurrentPriority(t) ==
    /\ t \in Writers
    /\ pc[t] = "notified"
    /\ IF WritePred(priority, request_queue)
       THEN /\ WriteGranted(t, priority, request_queue, waiting_writers)
            /\ owners' = IF recording = "tickets" /\ priority = "FAIR"
                         THEN Tail(owners) ELSE owners
       ELSE /\ pc' = [pc EXCEPT ![t] = "waiting"]
            /\ UNCHANGED <<lockState, branch, arrived, passed, owners, outside>>
    /\ UNCHANGED rounds

\* A notified writer re-takes the mutex and tests its predicate again.
resume_write(t) ==
    /\ t \in Writers
    /\ pc[t] = "notified"
    /\ IF WritePred(branch[t], request_queue)
       THEN WriteGranted(t, branch[t], request_queue, waiting_writers)
       ELSE /\ pc' = [pc EXCEPT ![t] = "waiting"]
            /\ UNCHANGED <<lockState, branch, arrived, passed, outside>>
    /\ UNCHANGED rounds
    /\ NoteTicket(t)

\* EndWriteWake with notify_all on cv_write under WRITERS.
EndWriteWakeAllWriters(p) ==
    IF priority = "READERS"
    THEN IF waiting_readers > 0 THEN {NotifyAll(p, Readers)}
         ELSE IF waiting_writers > 0 THEN NotifyOne(p, Writers)
         ELSE {p}
    ELSE IF priority = "WRITERS"
    THEN IF waiting_writers > 0 THEN {NotifyAll(p, Writers)}
         ELSE IF waiting_readers > 0 THEN {NotifyAll(p, Readers)}
         ELSE {p}
    ELSE IF request_queue # <<>>
    THEN IF Head(request_queue) THEN NotifyOne(p, Writers)
         ELSE {NotifyAll(p, Readers)}
    ELSE {p}

\* The notifications of end_write; p is pc with the caller back in its loop.
EndWriteWake(p) ==
    IF priority = "READERS"
    THEN IF waiting_readers > 0 THEN {NotifyAll(p, Readers)}
         ELSE IF waiting_writers > 0 THEN NotifyOne(p, Writers)
         ELSE {p}
    ELSE IF priority = "WRITERS"
    THEN IF waiting_writers > 0 THEN NotifyOne(p, Writers)
         ELSE IF waiting_readers > 0 THEN {NotifyAll(p, Readers)}
         ELSE {p}
    ELSE IF request_queue # <<>>
    THEN IF Head(request_queue) THEN NotifyOne(p, Writers)
         ELSE {NotifyAll(p, Readers)}
    ELSE {p}

end_write(t) ==
    /\ t \in Writers
    /\ pc[t] = "active"
    /\ writer_active' = FALSE
    /\ active_writers' = active_writers - 1
    /\ pc' \in EndWriteWake([pc EXCEPT ![t] = "idle"])
    /\ passed' = IF recording = "calls" THEN [passed EXCEPT ![t] = {}] ELSE passed
    /\ UNCHANGED <<active_readers, waiting_readers, waiting_writers, priority,
                   request_queue, branch, rounds, arrived, outside>>
    /\ UNCHANGED owners

\* set_priority waiting, like an acquire, until no writer is active.
SetPriorityWaitsForWriter(new_priority) ==
    /\ ~writer_active
    /\ new_priority \in Priority
    /\ request_queue' = IF priority = "FAIR" \/ new_priority = "FAIR" THEN <<>>
                        ELSE request_queue
    /\ priority' = new_priority
    /\ pc' = NotifyAll(NotifyAll(pc, Readers), Writers)
    /\ UNCHANGED <<active_readers, waiting_readers, active_writers,
                   waiting_writers, writer_active, branch, rounds, arrived, passed,
                   outside>>
    /\ owners' = IF recording = "tickets" /\ request_queue' = <<>> THEN <<>>
                 ELSE owners

\* ClearsQueue without the test for a switch into FAIR.
ClearsQueueOnlyLeavingFair(old, new) ==
    old = "FAIR" /\ new # "FAIR"

\* ClearsQueue without the test for a switch out of FAIR.
ClearsQueueOnlyEnteringFair(old, new) ==
    new = "FAIR"

\* Whether set_priority empties the ticket queue.
ClearsQueue(old, new) ==
    (old = "FAIR" /\ new # "FAIR") \/ new = "FAIR"

set_priority(new_priority) ==
    /\ new_priority \in Priority
    /\ request_queue' = IF ClearsQueue(priority, new_priority) THEN <<>>
                        ELSE request_queue
    /\ priority' = new_priority
    /\ pc' = NotifyAll(NotifyAll(pc, Readers), Writers)
    /\ UNCHANGED <<active_readers, waiting_readers, active_writers,
                   waiting_writers, writer_active, branch, rounds, arrived, passed,
                   outside>>
    /\ owners' = IF recording = "tickets" /\ request_queue' = <<>> THEN <<>>
                 ELSE owners

\* A spurious wake-up, which condition_variable::wait permits at any time.
SpuriousWakeup(t) ==
    /\ pc[t] = "waiting"
    /\ pc' = [pc EXCEPT ![t] = "notified"]
    /\ UNCHANGED <<lockState, branch, rounds, arrived, passed, outside>>
    /\ UNCHANGED owners

\* The line print_status writes: the four counters, writer_active, the
\* size of request_queue when the priority is FAIR (not written otherwise),
\* and the priority.
StatusLine ==
    [active_readers |-> active_readers,
     waiting_readers |-> waiting_readers,
     active_writers |-> active_writers,
     writer_active |-> writer_active,
     waiting_writers |-> waiting_writers,
     queue_len |-> IF priority = "FAIR" THEN Len(request_queue) ELSE -1,
     priority |-> priority]

\* Nothing written yet.
NoStatus ==
    [active_readers |-> 0, waiting_readers |-> 0, active_writers |-> 0,
     writer_active |-> FALSE, waiting_writers |-> 0, queue_len |-> -1,
     priority |-> "none"]

\* print_status taking the size of the queue by popping it empty.
PrintStatusDrainsQueue ==
    /\ status' = StatusLine
    /\ request_queue' = <<>>
    /\ UNCHANGED <<active_readers, waiting_readers, active_writers,
                   waiting_writers, priority, writer_active, pc, branch, rounds,
                   arrived, passed, filterState, recording, barrierState>>
    /\ UNCHANGED owners

print_status ==
    /\ status' = StatusLine
    /\ UNCHANGED <<lockState, pc, branch, rounds, arrived, passed, filterState,
                   recording, barrierState>>
    /\ UNCHANGED owners

----------------------------------------------------------------------------
\* The worker loops: for (i = 0; i < read_count; ++i) { start_read ... }.
ReaderCall(t) ==
    /\ rounds[t] < MaxRounds
    /\ start_read(t)
    /\ rounds' = [rounds EXCEPT ![t] = @ + 1]

WriterCall(t) ==
    /\ rounds[t] < MaxRounds
    /\ start_write(t)
    /\ rounds' = [rounds EXCEPT ![t] = @ + 1]

\* The same workers with no bound on the number of rounds.
ReaderArrives(t) == start_read(t) /\ UNCHANGED rounds
WriterArrives(t) == start_write(t) /\ UNCHANGED rounds

\* The threads of the barrier test.
BarrierThreads == 1..Count

\* The barrier test is a program of its own; beside the coordinator it is
\* not running.
BarrierIdle ==
    /\ waiting = 0
    /\ generation = 0
    /\ gen = [t \in BarrierThreads |-> 0]
    /\ bar_pc = [t \in BarrierThreads |-> "loop"]
    /\ ops_done = [t \in BarrierThreads |-> OperationsPerThread]

\* The film filter is a program of its own; beside the coordinator it is
\* not running.
FilterIdle ==
    /\ films = <<>>
    /\ numThreads = 0
    /\ chunkSize = 0
    /\ threads = {}
    /\ result = <<>>
    /\ filter_pc = "none"

\* The state after construction: ReadersWriters(Priority p).
Init ==
    /\ active_readers = 0
    /\ waiting_readers = 0
    /\ active_writers = 0
    /\ waiting_writers = 0
    /\ priority \in Priority
    /\ writer_active = FALSE
    /\ request_queue = <<>>
    /\ pc = [t \in Callers |-> "idle"]
    /\ branch = [t \in Callers |-> "none"]
    /\ rounds = [t \in Callers |-> 0]
    /\ arrived = <<>>
    /\ owners = <<>>
    /\ passed = [t \in Callers |-> {}]
    /\ status = NoStatus
    /\ FilterIdle
    /\ BarrierIdle
    /\ recording = "off"

\* The same state in a behaviour that keeps the history of calls and grants.
InitRecorded ==
    /\ active_readers = 0
    /\ waiting_readers = 0
    /\ active_writers = 0
    /\ waiting_writers = 0
    /\ priority \in Priority
    /\ writer_active = FALSE
    /\ request_queue = <<>>
    /\ pc = [t \in Callers |-> "idle"]
    /\ branch = [t \in Callers |-> "none"]
    /\ rounds = [t \in Callers |-> 0]
    /\ arrived = <<>>
    /\ owners = <<>>
    /\ passed = [t \in Callers |-> {}]
    /\ status = NoStatus
    /\ FilterIdle
    /\ BarrierIdle
    /\ recording = "calls"

\* One step of worker t in a finite workload of MaxRounds rounds.
ThreadStep(t) ==
    \/ ReaderCall(t)
    \/ resume_read(t)
    \/ end_read(t)
    \/ WriterCall(t)
    \/ resume_write(t)
    \/ end_write(t)

\* One step of worker t when workers never stop calling.
ThreadStepForever(t) ==
    \/ ReaderArrives(t)
    \/ resume_read(t)
    \/ end_read(t)
    \/ WriterArrives(t)
    \/ resume_write(t)
    \/ end_write(t)

\* Workers that never stop calling, the priority switched at any time.
Next ==
    \/ \E t \in Threads : ThreadStepForever(t)
    \/ \E t \in Threads : SpuriousWakeup(t)
    \/ \E p \in Priority : set_priority(p)

Spec == Init /\ [][Next]_vars

\* A finite workload, the priority switched at any time.
NextRounds ==
    \/ \E t \in Threads : ThreadStep(t)
    \/ \E t \in Threads : SpuriousWakeup(t)
    \/ \E p \in Priority : set_priority(p)

SpecRounds == Init /\ [][NextRounds]_vars

\* The same state in a behaviour that keeps the owners of the tickets.
InitTickets ==
    /\ active_readers = 0
    /\ waiting_readers = 0
    /\ active_writers = 0
    /\ waiting_writers = 0
    /\ priority \in Priority
    /\ writer_active = FALSE
    /\ request_queue = <<>>
    /\ pc = [t \in Callers |-> "idle"]
    /\ branch = [t \in Callers |-> "none"]
    /\ rounds = [t \in Callers |-> 0]
    /\ arrived = <<>>
    /\ owners = <<>>
    /\ passed = [t \in Callers |-> {}]
    /\ status = NoStatus
    /\ FilterIdle
    /\ BarrierIdle
    /\ recording = "tickets"

\* Workers that never stop calling, the priority switched at any time; the
\* owners of the tickets are kept.
SpecTickets == InitTickets /\ [][Next]_vars

\* Workers that never stop calling, the priority fixed at construction; the
\* history of calls and grants is kept.
NextFixed ==
    \/ \E t \in Threads : ThreadStepForever(t)
    \/ \E t \in Threads : SpuriousWakeup(t)

SpecFixed == InitRecorded /\ [][NextFixed]_vars

\* Every worker that can take a step of its own eventually takes it (a
\* holder releases, a notified caller re-tests, a caller calls); a spurious
\* wake-up is never owed.
LiveFixed == SpecFixed /\ \A t \in Threads : WF_vars(ThreadStepForever(t))

\* A finite workload, the priority fixed at construction.
NextFixedRounds ==
    \/ \E t \in Threads : ThreadStep(t)
    \/ \E t \in Threads : SpuriousWakeup(t)

SpecFixedRounds == Init /\ [][NextFixedRounds]_vars

LiveFixedRounds == SpecFixedRounds /\ \A t \in Threads : WF_vars(ThreadStep(t))

\* Workers under one priority with the monitoring thread of main calling
\* print_status at any time.
NextStatus ==
    \/ \E t \in Threads : ThreadStepForever(t)
    \/ \E t \in Threads : SpuriousWakeup(t)
    \/ print_status

SpecStatus == Init /\ [][NextStatus]_vars

\* Every caller, the extra writers included, calling without end under one
\* priority.
NextCrowd ==
    \/ \E t \in Callers : ThreadStepForever(t)
    \/ \E t \in Callers : SpuriousWakeup(t)

SpecCrowd == Init /\ [][NextCrowd]_vars

----------------------------------------------------------------------------
\* Vocabulary of the properties.

\* t is inside start_read/start_write, suspended in its wait.
Suspended(t) == pc[t] \in {"waiting", "notified"}

\* The predicate lambda t is suspended with, on the current state.
OwnPred(t) ==
    IF t \in Readers THEN ReadPred(branch[t], request_queue)
    ELSE WritePred(branch[t], request_queue)

\* The admission predicate of the priority now in force, for a caller of
\* t's kind.
PolicyAdmits(t) ==
    IF t \in Readers THEN ReadPred(priority, request_queue)
    ELSE WritePred(priority, request_queue)

\* t has run all the rounds of a finite workload.
Finished(t) == pc[t] = "idle" /\ rounds[t] = MaxRounds

\* No hold, no waiter counted, no ticket left.
Quiescent ==
    /\ active_readers = 0
    /\ active_writers = 0
    /\ ~writer_active
    /\ waiting_readers = 0
    /\ waiting_writers = 0
    /\ request_queue = <<>>

\* C1: mutual exclusion. Whatever the priority and however it is switched,
\* active_writers = 1 never coincides with active_readers > 0, and no reader
\* holds the lock while a writer holds it.
MutualExclusion ==
    /\ ~(active_writers = 1 /\ active_readers > 0)
    /\ \A r \in Readers, w \in Writers : ~(pc[r] = "active" /\ pc[w] = "active")

\* C1 witness: a writer holds the lock while a reader that called under
\* another priority than the one now in force is kept suspended.
MutualExclusionWitness ==
    /\ active_writers = 1
    /\ \E r \in Readers : Suspended(r) /\ branch[r] # priority

\* C2: single writer. active_writers is 0 or 1 and writer_active is true
\* exactly when it is 1.
SingleWriter ==
    /\ active_writers \in {0, 1}
    /\ writer_active <=> (active_writers = 1)

\* C2 witness: one writer holds the lock and another one is kept suspended.
SingleWriterWitness ==
    /\ writer_active
    /\ \E w, v \in Writers : pc[w] = "active" /\ Suspended(v)

\* t is suspended for good although the lock is free and the priority in
\* force would admit it: nobody holds the lock, every other worker has
\* finished or is suspended too, and no suspended caller's own predicate
\* holds.  Neither a wake-up nor a further set_priority can make one hold.
Stranded(t) ==
    /\ Suspended(t)
    /\ active_readers = 0
    /\ active_writers = 0
    /\ priority # "FAIR"
    /\ PolicyAdmits(t)
    /\ \A u \in Threads : Finished(u) \/ (Suspended(u) /\ ~OwnPred(u))

\* C3: a policy switch never strands a waiter. No reachable state has a
\* caller suspended forever while nobody holds the lock and the predicate of
\* the priority in force is satisfied for it.
NoStrandedWaiter == \A t \in Threads : ~Stranded(t)

\* C6: re-evaluation against the new policy, on the example of the claim.
\* A reader suspended under WRITERS that re-tests after set_priority(READERS)
\* is admitted by the READERS predicate: it is granted as soon as
\* writer_active is false, whatever waiting_writers is.
ReaderReevaluatesUnderReaders ==
    [][\A t \in Readers :
          (/\ pc[t] = "notified" /\ pc'[t] # "notified"
           /\ branch[t] = "WRITERS" /\ priority = "READERS"
           /\ ~writer_active)
              => pc'[t] = "active"]_vars

\* C4: Fair-mode ordering by caller. With the priority fixed at FAIR, callers
\* are granted in the order of their calls: no holder was granted while a
\* caller that had called before it was still suspended.
FairGrantsInCallOrder ==
    priority = "FAIR" => \A t \in Threads : pc[t] = "active" => passed[t] = {}

\* C5: no reader overtakes a queued writer under FAIR. With the priority
\* fixed at FAIR, no reader was granted while a writer that had called
\* start_write before the reader's start_read was still suspended.
FairNoReaderOvertakesWriter ==
    priority = "FAIR" =>
        \A r \in Readers : pc[r] = "active" => passed[r] \cap Writers = {}

\* Every worker of the finite workload has run all its rounds.
AllFinished == \A t \in Threads : Finished(t)

\* C7: fixed-policy deadlock freedom and no leaked holds. Under each
\* priority held fixed a finite workload always terminates, and once every
\* worker has finished no hold, no waiter count and no ticket is left.
TerminatesClean ==
    /\ <>AllFinished
    /\ [](AllFinished => Quiescent)

\* C7 witness: the workload has ended after contention: every worker has
\* finished its rounds and the lock state is back to its initial values.
TerminatesCleanWitness ==
    /\ AllFinished
    /\ Quiescent
    /\ \A t \in Threads : rounds[t] = MaxRounds /\ rounds[t] > 0

\* C8: starvation is precluded under FAIR. With the priority fixed at FAIR
\* every caller suspended in start_read or start_write is eventually
\* granted, holders always releasing and other callers arriving without
\* bound.
FairNoStarvation ==
    \A t \in Threads :
        (priority = "FAIR" /\ Suspended(t)) ~> (pc[t] = "active")

\* C9: writer priority on the reader side. With the priority fixed at
\* WRITERS every step that grants a start_read is taken from a state with
\* waiting_writers = 0 and writer_active false, and a reader that calls
\* while a writer waits is suspended.
WriterPriorityBlocksReaders ==
    [][\A r \in Readers :
          /\ (priority = "WRITERS" /\ pc[r] # "active" /\ pc'[r] = "active")
                => (waiting_writers = 0 /\ ~writer_active)
          /\ (priority = "WRITERS" /\ pc[r] = "idle" /\ pc'[r] # "idle"
              /\ waiting_writers > 0)
                => Suspended(r)']_vars

\* C9 witness: under WRITERS a reader has tested its predicate and is kept
\* waiting by a waiting writer alone, no writer being active.
WriterPriorityBlocksReadersWitness ==
    /\ priority = "WRITERS"
    /\ ~writer_active
    /\ waiting_writers > 0
    /\ \E r \in Readers : pc[r] = "waiting" /\ branch[r] = "WRITERS"

\* C10: reader priority on the reader side. With the priority fixed at
\* READERS a reader that calls start_read while writer_active is false is
\* granted in that very call, whatever waiting_writers is.
ReaderPriorityAdmits ==
    [][\A r \in Readers :
          (priority = "READERS" /\ pc[r] = "idle" /\ pc'[r] # "idle"
           /\ ~writer_active)
              => pc'[r] = "active"]_vars

\* C10 witness: under READERS a reader holds the lock that was granted while
\* a writer that had called before it was waiting, and that writer waits
\* still.
ReaderPriorityAdmitsWitness ==
    /\ priority = "READERS"
    /\ waiting_writers > 0
    /\ \E r \in Readers, w \in Writers :
          pc[r] = "active" /\ w \in passed[r] /\ Suspended(w)

\* C11: only the acquires block. In every reachable state, whatever callers
\* are suspended, end_read and end_write of a holder, set_priority with any
\* priority and print_status can run to completion.
OnlyAcquiresBlock ==
    /\ \A r \in Readers : pc[r] = "active" => ENABLED end_read(r)
    /\ \A w \in Writers : pc[w] = "active" => ENABLED end_write(w)
    /\ \A p \in Priority : ENABLED set_priority(p)
    /\ ENABLED print_status

\* C11 witness: a writer holds the lock while a reader and another writer
\* are suspended in their acquires.
OnlyAcquiresBlockWitness ==
    /\ \E w \in Writers : pc[w] = "active"
    /\ \E r \in Readers : Suspended(r)
    /\ \E w \in Writers : Suspended(w)

\* The callers suspended on a lambda of the FAIR branch.
FairWaiters == {t \in Threads : Suspended(t) /\ branch[t] = "FAIR"}

\* C12: the length of request_queue equals the number of callers suspended
\* inside the FAIR branch of start_read/start_write.
QueueLengthIsFairWaiters == Len(request_queue) = Cardinality(FairWaiters)

\* C13: effect and frame of set_priority(p). A step of set_priority(p)
\* empties request_queue when p is FAIR or the old priority was FAIR, leaves
\* it as it is otherwise, sets priority to p and changes none of
\* active_readers, waiting_readers, active_writers, waiting_writers and
\* writer_active.
SetPriorityEffect ==
    [][\A p \in Priority :
          set_priority(p) =>
              /\ (p = "FAIR" \/ priority = "FAIR") => request_queue' = <<>>
              /\ ~(p = "FAIR" \/ priority = "FAIR") => request_queue' = request_queue
              /\ priority' = p
              /\ active_readers' = active_readers
              /\ waiting_readers' = waiting_readers
              /\ active_writers' = active_writers
              /\ waiting_writers' = waiting_writers
              /\ writer_active' = writer_active]_vars

\* C13 witness: set_priority has emptied a queue that held the tickets of
\* callers suspended in the FAIR branch, while a holder and its count stay.
SetPriorityEffectWitness ==
    /\ FairWaiters # {}
    /\ request_queue = <<>>
    /\ active_readers + active_writers > 0

\* C15: the counters never go negative.
CountersNonNegative ==
    /\ active_readers >= 0
    /\ waiting_readers >= 0
    /\ waiting_writers >= 0

\* C15 witness: all waiting counters are back at 0 under READERS or WRITERS
\* while callers that entered under FAIR, which were never counted, are
\* still suspended and a reader holds the lock.
CountersNonNegativeWitness ==
    /\ priority # "FAIR"
    /\ waiting_readers = 0
    /\ waiting_writers = 0
    /\ FairWaiters # {}
    /\ \E r \in Readers : pc[r] = "active"

\* C16: the ticket queue is empty outside FAIR mode.
QueueEmptyOutsideFair == priority # "FAIR" => request_queue = <<>>

\* C16 witness: the priority is READERS or WRITERS and callers that pushed a
\* ticket under FAIR are still suspended.
QueueEmptyOutsideFairWitness ==
    /\ priority # "FAIR"
    /\ Cardinality(FairWaiters) >= 2

\* C18: holder accounting. active_readers is the number of readers between
\* start_read and end_read, and writer_active holds exactly when a writer is
\* between start_write and end_write.
HolderAccounting ==
    /\ active_readers = Cardinality({r \in Readers : pc[r] = "active"})
    /\ writer_active <=> (\E w \in Writers : pc[w] = "active")

\* C18 witness: two readers hold the lock together while a writer waits.
HolderAccountingWitness ==
    /\ Cardinality({r \in Readers : pc[r] = "active"}) >= 2
    /\ \E w \in Writers : Suspended(w)

\* C14: the snapshot is read-only and idempotent. A step that writes a new
\* status line changes no field of the lock state and the line reports that
\* state; and when the last line written is still current, a step that
\* changes no field of the lock state (a second print_status among them)
\* leaves the same line.
SnapshotReadOnlyIdempotent ==
    [][/\ status' # status => (lockState' = lockState /\ status' = StatusLine)
       /\ (status = StatusLine /\ lockState' = lockState) => status' = status]_vars

\* C14 witness: the line written last reports a FAIR queue with two tickets
\* and is still current while a caller has been woken since.
SnapshotReadOnlyIdempotentWitness ==
    /\ status = StatusLine
    /\ status.queue_len >= 2
    /\ \E t \in Threads : pc[t] = "notified"

\* C19: spurious and surplus wake-ups are harmless. A woken caller whose
\* predicate is false changes no field of the lock state and waits again,
\* and with callers woken at any time mutual exclusion and the single-writer
\* invariant hold in every reachable state.
WakeupsHarmless ==
    /\ [][\A t \in Threads :
             (pc[t] = "notified" /\ ~OwnPred(t) /\ pc'[t] # pc[t])
                 => (pc'[t] = "waiting" /\ lockState' = lockState)]_vars
    /\ [](~(active_writers = 1 /\ active_readers > 0))
    /\ [](active_writers \in {0, 1} /\ (writer_active <=> active_writers = 1))

\* C19 witness: while a writer holds the lock a reader and another writer
\* have both been woken although neither predicate holds.
WakeupsHarmlessWitness ==
    /\ writer_active
    /\ \E r \in Readers : pc[r] = "notified" /\ ~OwnPred(r)
    /\ \E w \in Writers : pc[w] = "notified" /\ ~OwnPred(w)

\* C20: wake-up on end_write under READERS.  In the step in which the writer
\* leaves: if waiting_readers > 0 every parked reader is woken and no writer
\* is; otherwise, if waiting_writers > 0, exactly one parked writer is woken
\* (none when no writer is parked) and no reader is; and afterwards, if some
\* suspended caller's predicate holds, some woken caller's predicate holds,
\* so that one of them proceeds.
EndWriteWakesUnderReaders ==
    [][(writer_active /\ ~writer_active' /\ priority = "READERS") =>
         /\ waiting_readers > 0 =>
              /\ \A r \in Readers : pc[r] = "waiting" => pc'[r] = "notified"
              /\ \A w \in Writers : pc[w] = "waiting" => pc'[w] = "waiting"
         /\ (waiting_readers = 0 /\ waiting_writers > 0) =>
              /\ \A r \in Readers : pc[r] = "waiting" => pc'[r] = "waiting"
              /\ Cardinality({w \in Writers : pc[w] = "waiting" /\ pc'[w] = "notified"})
                   = IF Parked(pc, Writers) = {} THEN 0 ELSE 1
         /\ (\E t \in Threads : (Suspended(t) /\ OwnPred(t))')
              => (\E u \in Threads : (pc[u] = "notified" /\ OwnPred(u))')]_vars

-----------------------------------------------------------------------------
\* The film filter of src/n2.cpp.  A film is kept as the value hasDirector
\* gives for it, and a copy of films[i] in a result as the position i,
\* counted from 0 as in the code.

\* The coordinator, its callers and the barrier test, which the filter does
\* not touch.
coordinator == <<lockState, pc, branch, rounds, arrived, passed, status,
                 recording, owners, barrierState>>

FilmLists == UNION {[1..n -> BOOLEAN] : n \in 0..MaxFilms}

\* processWithoutThreads: every film in order, the matching ones kept.
processWithoutThreads(f) ==
    SelectSeq([k \in 1..Len(f) |-> k - 1], LAMBDA i : f[i + 1])

\* The loop of processChunk: for (i = start; i < end && i < films.size(); ++i).
RECURSIVE localResult(_, _, _)
localResult(f, i, end) ==
    IF i < end /\ i < Len(f)
    THEN (IF f[i + 1] THEN <<i>> ELSE <<>>) \o localResult(f, i + 1, end)
    ELSE <<>>

\* start and end of worker i in processWithThreads.
ChunkStart(i) == i * chunkSize
ChunkEnd(i) == IF i = numThreads - 1 THEN Len(films) ELSE (i + 1) * chunkSize

\* main has read its input and clamped numThreads to 1..16; the list is
\* generated and processWithThreads is called.
InitFilter ==
    /\ active_readers = 0
    /\ waiting_readers = 0
    /\ active_writers = 0
    /\ waiting_writers = 0
    /\ priority = "READERS"
    /\ writer_active = FALSE
    /\ request_queue = <<>>
    /\ pc = [t \in Callers |-> "idle"]
    /\ branch = [t \in Callers |-> "none"]
    /\ rounds = [t \in Callers |-> 0]
    /\ arrived = <<>>
    /\ owners = <<>>
    /\ passed = [t \in Callers |-> {}]
    /\ status = NoStatus
    /\ recording = "off"
    /\ BarrierIdle
    /\ films \in FilmLists
    /\ numThreads \in 1..MaxThreads
    /\ chunkSize = 0
    /\ threads = {}
    /\ result = <<>>
    /\ filter_pc = "called"

\* processWithThreads up to the start of the workers.  With an empty list
\* numThreads becomes 0 and films.size() / numThreads divides by zero: the
\* program is killed, or goes on with some value in chunkSize.
processWithThreads ==
    /\ filter_pc = "called"
    /\ LET n == IF numThreads > Len(films) THEN Len(films) ELSE numThreads
       IN  /\ numThreads' = n
           /\ IF n = 0
              THEN \/ /\ filter_pc' = "crashed"
                      /\ UNCHANGED <<chunkSize, threads>>
                   \/ /\ chunkSize' \in 0..MaxFilms
                      /\ threads' = {}
                      /\ filter_pc' = "started"
              ELSE /\ chunkSize' = Len(films) \div n
                   /\ threads' = 0..(n - 1)
                   /\ filter_pc' = "started"
    /\ UNCHANGED <<films, result, coordinator>>

\* Worker i: the scan of its chunk, then the insert under resultMutex.
processChunk(i) ==
    /\ filter_pc = "started"
    /\ i \in threads
    /\ result' = result \o localResult(films, ChunkStart(i), ChunkEnd(i))
    /\ threads' = threads \ {i}
    /\ UNCHANGED <<films, numThreads, chunkSize, filter_pc, coordinator>>

\* Every worker is joined and result is returned.
ReturnResult ==
    /\ filter_pc = "started"
    /\ threads = {}
    /\ filter_pc' = "returned"
    /\ UNCHANGED <<films, numThreads, chunkSize, threads, result, coordinator>>

NextFilter ==
    \/ processWithThreads
    \/ \E i \in 0..(MaxThreads - 1) : processChunk(i)
    \/ ReturnResult

SpecFilter == InitFilter /\ [][NextFilter]_vars

\* How often x occurs in the sequence s.
Occurrences(s, x) == Cardinality({j \in DOMAIN s : s[j] = x})

\* C17: the parallel filter agrees with the sequential one.  For every film
\* list, the empty one included, and every numThreads in 1..16,
\* processWithThreads does not fail; the chunks of its workers partition the
\* positions 0..size-1; and what it returns has every film that
\* processWithoutThreads returns exactly once and no other.
ParallelFilterAgrees ==
    /\ filter_pc # "crashed"
    /\ filter_pc = "started" =>
         \A k \in 0..(Len(films) - 1) :
            Cardinality({i \in 0..(numThreads - 1) :
                            ChunkStart(i) <= k /\ k < ChunkEnd(i)}) = 1
    /\ filter_pc = "returned" =>
         /\ Len(result) = Len(processWithoutThreads(films))
         /\ \A k \in 0..(MaxFilms - 1) :
               Occurrences(result, k) = Occurrences(processWithoutThreads(films), k)

-----------------------------------------------------------------------------
\* The callers a step takes out of the wait set of their condition variable.
Woken(cls) == {t \in cls : pc[t] = "waiting" /\ pc'[t] = "notified"}

\* C21: wake-up on end_write under WRITERS.  In the step in which the writer
\* leaves: if waiting_writers > 0 exactly one parked writer is woken (none
\* when no writer is parked) and no reader is; otherwise, if
\* waiting_readers > 0, every parked reader is woken.
EndWriteWakesUnderWriters ==
    [][(writer_active /\ ~writer_active' /\ priority = "WRITERS") =>
         /\ waiting_writers > 0 =>
              /\ Woken(Readers) = {}
              /\ Cardinality(Woken(Writers))
                   = IF Parked(pc, Writers) = {} THEN 0 ELSE 1
         /\ (waiting_writers = 0 /\ waiting_readers > 0) =>
              Woken(Readers) = Parked(pc, Readers)]_vars

\* C21 witness: under WRITERS the lock has been released with two writers
\* and a reader parked: one writer is woken, the other writer and the
\* reader are parked still.
EndWriteWakesUnderWritersWitness ==
    /\ priority = "WRITERS"
    /\ ~writer_active
    /\ active_readers = 0
    /\ \E w1, w2 \in Writers : pc[w1] = "notified" /\ pc[w2] = "waiting"
    /\ \A r \in Readers : pc[r] = "waiting"

\* The queue is non-empty under FAIR and its head is a ticket of kind k
\* (TRUE - writer, FALSE - reader).
FairHead(k) == priority = "FAIR" /\ request_queue # <<>> /\ Head(request_queue) = k

\* The smaller of two numbers.
Min(a, b) == IF a < b THEN a ELSE b

\* C22: wake-up on end_read, and on end_write under FAIR.  An end_read that
\* brings active_readers to 0 signals cv_write once under every priority;
\* under FAIR with a non-empty queue end_read signals cv_write once more when
\* the head is a writer ticket and wakes every parked reader when it is a
\* reader ticket, and wakes no reader otherwise.  Each signal wakes one
\* parked writer as long as one is parked.  end_write under FAIR wakes by
\* the same head rule: one parked writer and no reader at a writer ticket,
\* every parked reader and no writer at a reader ticket, nobody when the
\* queue is empty.
EndReadWakes ==
    [][/\ active_readers' = active_readers - 1 =>
            /\ Cardinality(Woken(Writers))
                 = Min(Cardinality(Parked(pc, Writers)),
                       (IF active_readers' = 0 THEN 1 ELSE 0)
                         + (IF FairHead(TRUE) THEN 1 ELSE 0))
            /\ Woken(Readers) = IF FairHead(FALSE) THEN Parked(pc, Readers) ELSE {}
       /\ (writer_active /\ ~writer_active' /\ priority = "FAIR") =>
            /\ Cardinality(Woken(Writers))
                 = Min(Cardinality(Parked(pc, Writers)), IF FairHead(TRUE) THEN 1 ELSE 0)
            /\ Woken(Readers) = IF FairHead(FALSE) THEN Parked(pc, Readers) ELSE {}]_vars

\* C22 witness: under FAIR the last reader has left with a writer ticket at
\* the head: no reader is active, two writers are woken and a third is
\* parked still.
EndReadWakesWitness ==
    /\ FairHead(TRUE)
    /\ active_readers = 0
    /\ ~writer_active
    /\ \E w1, w2, w3 \in Writers :
          /\ w1 # w2
          /\ pc[w1] = "notified" /\ pc[w2] = "notified" /\ pc[w3] = "waiting"

\* C23: reader batching under FAIR.  With the priority fixed at FAIR a
\* reader that calls or re-tests while no writer is active and no writer
\* ticket is at the head of the queue is granted, however many readers are
\* active, and no writer is granted over a reader ticket at the head; so the
\* readers of consecutive tickets hold the lock together while a writer
\* queued behind them waits.
ReadersBatchUnderFair ==
    [][priority = "FAIR" =>
         /\ \A r \in Readers :
               (/\ pc[r] \in {"idle", "notified"}
                /\ pc'[r] \in {"waiting", "active"}
                /\ ~writer_active
                /\ IF request_queue = <<>> THEN pc[r] = "idle"
                   ELSE ~Head(request_queue))
                  => (pc'[r] = "active" /\ active_readers' = active_readers + 1)
         /\ (~writer_active /\ writer_active')
               => (request_queue = <<>> \/ Head(request_queue))]_vars

\* C23 witness: under FAIR two readers hold the lock together, one of them
\* granted while the other was suspended and the other one after it, and a
\* writer that called after them waits with its ticket.
ReadersBatchUnderFairWitness ==
    /\ priority = "FAIR"
    /\ active_readers >= 2
    /\ request_queue = <<TRUE>>
    /\ \E r1, r2 \in Readers, w \in Writers :
          /\ pc[r1] = "active" /\ pc[r2] = "active"
          /\ r1 \in passed[r2]
          /\ Suspended(w) /\ w \notin passed[r1] /\ w \notin passed[r2]

\* The callers suspended now that called after t did; t is suspended.
After(s, t) == {s[i] : i \in {j \in 1..Len(s) : \E k \in 1..(j - 1) : s[k] = t}}

\* C24: writers overtake waiting readers under WRITERS.  With the priority
\* fixed at WRITERS a suspended reader is never granted while a writer that
\* called start_write after the reader was suspended is itself still
\* suspended: every such writer is granted before the reader.
WritersOvertakeReaders ==
    [][\A r \in Readers :
          (priority = "WRITERS" /\ Suspended(r) /\ pc'[r] = "active")
              => After(arrived, r) \cap Writers = {}]_vars

\* C24 witness: under WRITERS a writer holds the lock that was granted
\* while a reader that had called before it was suspended; the reader is
\* suspended still and the other writer, which called after the reader
\* too, is waiting for its turn.
WritersOvertakeReadersWitness ==
    /\ priority = "WRITERS"
    /\ \E r \in Readers, w1, w2 \in Writers :
          /\ pc[w1] = "active" /\ r \in passed[w1]
          /\ Suspended(r)
          /\ w2 \in After(arrived, r)

\* C25: writer admission is the same under READERS and WRITERS.  A writer
\* that calls start_write under one of the two, or re-tests the predicate
\* it was suspended with under one of the two, is granted exactly when
\* writer_active is false and active_readers = 0, whatever waiting_readers
\* and waiting_writers are.
WriterAdmissionSame ==
    [][\A w \in Writers :
          (/\ pc[w] \in {"idle", "notified"}
           /\ pc'[w] \in {"waiting", "active"}
           /\ (IF pc[w] = "idle" THEN priority ELSE branch[w]) \in {"READERS", "WRITERS"})
             => (pc'[w] = "active" <=> (~writer_active /\ active_readers = 0))]_vars

\* C25 witness: under READERS a writer holds the lock that was granted
\* while a reader and another writer, both counted as waiting, were
\* suspended.
WriterAdmissionSameWitness ==
    /\ priority = "READERS"
    /\ waiting_readers > 0
    /\ waiting_writers > 0
    /\ \E w \in Writers :
          /\ pc[w] = "active"
          /\ passed[w] \cap Readers # {}
          /\ passed[w] \cap Writers # {}

\* C26: kind-level FIFO under FAIR.  With the priority fixed at FAIR the
\* queue is first-in first-out in tickets: a call appends its ticket at the
\* tail, a ticket leaves only at a grant, the ticket that leaves is the head
\* and its kind is the kind of the caller granted.  So the k-th grant has
\* the kind of the k-th ticket, whoever enqueued it.
KindFifoUnderFair ==
    [][priority = "FAIR" =>
         /\ \A t \in Threads :
               LET kind == t \in Writers
                   q == IF pc[t] = "idle" THEN Append(request_queue, kind)
                        ELSE request_queue
               IN  /\ (pc[t] # "active" /\ pc'[t] = "active")
                         => (q # <<>> /\ Head(q) = kind /\ request_queue' = Tail(q))
                   /\ (pc[t] = "idle" /\ pc'[t] = "waiting") => request_queue' = q
         /\ (\A t \in Threads :
                /\ ~(pc[t] # "active" /\ pc'[t] = "active")
                /\ ~(pc[t] = "idle" /\ pc'[t] = "waiting"))
               => request_queue' = request_queue]_vars

\* C26 witness: under FAIR a writer holds the lock on the ticket of another
\* writer, which had called before it and is suspended still with a ticket
\* left in the queue.
KindFifoUnderFairWitness ==
    /\ priority = "FAIR"
    /\ request_queue # <<>>
    /\ \E w1, w2 \in Writers :
          pc[w1] = "active" /\ w2 \in passed[w1] /\ Suspended(w2)

\* A caller suspended on the FAIR lambda that has no ticket of its own in
\* the queue.
Ticketless(t) == Suspended(t) /\ branch[t] = "FAIR" /\ t \notin Range(owners)

PopOnlyOwnKindHead ==
    [][\A t \in Threads :
          LET kind == t \in Writers
              b == IF pc[t] = "idle" THEN priority ELSE branch[t]
              q == IF pc[t] = "idle" /\ b = "FAIR" THEN Append(request_queue, kind)
                   ELSE request_queue
          IN  (pc[t] # "active" /\ pc'[t] = "active") =>
                 IF b = "FAIR"
                 THEN q # <<>> /\ Head(q) = kind /\ request_queue' = Tail(q)
                 ELSE request_queue' = request_queue]_vars

\* C28 witness: set_priority has emptied the queue and woken a caller
\* suspended in the FAIR branch; the caller has tested its predicate on the
\* empty queue and is parked again, the lock being free.
PopOnlyOwnKindHeadWitness ==
    /\ priority # "FAIR"
    /\ request_queue = <<>>
    /\ ~writer_active
    /\ active_readers = 0
    /\ \E t \in Threads : branch[t] = "FAIR" /\ pc[t] = "waiting"

\* The callers of class cls suspended in the READERS or the WRITERS branch.
CountedWaiters(cls) ==
    {t \in cls : Suspended(t) /\ branch[t] \in {"READERS", "WRITERS"}}

\* C29: the waiting counters count the entrants of the READERS and WRITERS
\* branches only.  Whenever the mutex is free, whatever the priority in
\* force, waiting_readers is the number of callers suspended in start_read
\* that entered under READERS or WRITERS and waiting_writers the number of
\* such callers of start_write; a caller that entered under FAIR is never
\* counted.
WaitingCountsNonFairEntrants ==
    /\ waiting_readers = Cardinality(CountedWaiters(Readers))
    /\ waiting_writers = Cardinality(CountedWaiters(Writers))

\* C29 witness: under FAIR two writers and a reader are suspended; one
\* writer entered under FAIR and is not counted, the other writer and the
\* reader entered before the switch and are.
WaitingCountsNonFairEntrantsWitness ==
    /\ priority = "FAIR"
    /\ waiting_writers = 1
    /\ waiting_readers = 1
    /\ \E w1, w2 \in Writers :
          /\ Suspended(w1) /\ branch[w1] = "FAIR"
          /\ Suspended(w2) /\ branch[w2] # "FAIR"

-----------------------------------------------------------------------------
\* SimpleBarrier of src/n1.cpp under the workers of BarrierTest::RunTest:
\* Count threads, each calling bar->wait() OperationsPerThread times.  wait()
\* runs under the barrier's mutex and is split at cv.wait like the acquires
\* above.

\* Everything that is not the barrier test.
besideBarrier == <<lockState, pc, branch, rounds, arrived, passed, owners, status,
                   filterState, recording>>

\* BarrierTest(threads, ops) constructed and RunTest started: the barrier
\* has count = Count and no worker has called wait() yet.
InitBarrier ==
    /\ active_readers = 0
    /\ waiting_readers = 0
    /\ active_writers = 0
    /\ waiting_writers = 0
    /\ priority = "READERS"
    /\ writer_active = FALSE
    /\ request_queue = <<>>
    /\ pc = [t \in Callers |-> "idle"]
    /\ branch = [t \in Callers |-> "none"]
    /\ rounds = [t \in Callers |-> 0]
    /\ arrived = <<>>
    /\ owners = <<>>
    /\ passed = [t \in Callers |-> {}]
    /\ status = NoStatus
    /\ FilterIdle
    /\ recording = "off"
    /\ waiting = 0
    /\ generation = 0
    /\ gen = [t \in BarrierThreads |-> 0]
    /\ bar_pc = [t \in BarrierThreads |-> "loop"]
    /\ ops_done = [t \in BarrierThreads |-> 0]

\* wait() with the waiters released when count - 1 threads have arrived.
WaitReleasesEarly(t) ==
    /\ bar_pc[t] = "loop"
    /\ ops_done[t] < OperationsPerThread
    /\ gen' = [gen EXCEPT ![t] = generation]
    /\ IF waiting + 1 = Count - 1
       THEN /\ generation' = generation + 1
            /\ waiting' = 0
            /\ bar_pc' = [u \in BarrierThreads |->
                            IF bar_pc[u] = "waiting" THEN "notified" ELSE bar_pc[u]]
            /\ ops_done' = [ops_done EXCEPT ![t] = @ + 1]
       ELSE /\ waiting' = waiting + 1
            /\ bar_pc' = [bar_pc EXCEPT ![t] = "waiting"]
            /\ UNCHANGED <<generation, ops_done>>
    /\ UNCHANGED besideBarrier

\* wait() with the last arrival not starting a new generation.
WaitKeepsGeneration(t) ==
    /\ bar_pc[t] = "loop"
    /\ ops_done[t] < OperationsPerThread
    /\ gen' = [gen EXCEPT ![t] = generation]
    /\ IF waiting + 1 = Count
       THEN /\ waiting' = 0
            /\ bar_pc' = [u \in BarrierThreads |->
                            IF bar_pc[u] = "waiting" THEN "notified" ELSE bar_pc[u]]
            /\ ops_done' = [ops_done EXCEPT ![t] = @ + 1]
            /\ UNCHANGED generation
       ELSE /\ waiting' = waiting + 1
            /\ bar_pc' = [bar_pc EXCEPT ![t] = "waiting"]
            /\ UNCHANGED <<generation, ops_done>>
    /\ UNCHANGED besideBarrier

\* SimpleBarrier::wait up to its return or to the wait on cv: gen is read,
\* waiting incremented; the last arrival starts the next generation, resets
\* waiting, notifies all and returns; any other caller finds its predicate
\* gen != generation false and parks.
wait(t) ==
    /\ bar_pc[t] = "loop"
    /\ ops_done[t] < OperationsPerThread
    /\ gen' = [gen EXCEPT ![t] = generation]
    /\ IF waiting + 1 = Count
       THEN /\ generation' = generation + 1
            /\ waiting' = 0
            /\ bar_pc' = [u \in BarrierThreads |->
                            IF bar_pc[u] = "waiting" THEN "notified" ELSE bar_pc[u]]
            /\ ops_done' = [ops_done EXCEPT ![t] = @ + 1]
       ELSE /\ waiting' = waiting + 1
            /\ bar_pc' = [bar_pc EXCEPT ![t] = "waiting"]
            /\ UNCHANGED <<generation, ops_done>>
    /\ UNCHANGED besideBarrier

\* A woken caller re-takes the mutex and tests gen != generation: it returns
\* from wait() into its loop, or parks again.
resume_wait(t) ==
    /\ bar_pc[t] = "notified"
    /\ IF gen[t] # generation
       THEN /\ bar_pc' = [bar_pc EXCEPT ![t] = "loop"]
            /\ ops_done' = [ops_done EXCEPT ![t] = @ + 1]
       ELSE /\ bar_pc' = [bar_pc EXCEPT ![t] = "waiting"]
            /\ UNCHANGED ops_done
    /\ UNCHANGED <<waiting, generation, gen, besideBarrier>>

\* A spurious wake-up of a caller parked in wait().
BarrierSpuriousWakeup(t) ==
    /\ bar_pc[t] = "waiting"
    /\ bar_pc' = [bar_pc EXCEPT ![t] = "notified"]
    /\ UNCHANGED <<waiting, generation, gen, ops_done, besideBarrier>>

\* One step of worker t of the barrier test.
BarrierStep(t) == wait(t) \/ resume_wait(t)

NextBarrier ==
    \/ \E t \in BarrierThreads : BarrierStep(t)
    \/ \E t \in BarrierThreads : BarrierSpuriousWakeup(t)

SpecBarrier == InitBarrier /\ [][NextBarrier]_vars

\* The number of calls of wait() that t has entered, and the number it has
\* returned from.
Entered(t) == ops_done[t] + (IF bar_pc[t] = "loop" THEN 0 ELSE 1)
Returned(t) == ops_done[t]

\* C30: SimpleBarrier phase synchronisation.  With count threads on a
\* barrier of that count, no thread has returned from its k-th wait() unless
\* every thread has entered its k-th wait(), for every round k; so no thread
\* is more than one call ahead of another.  A thread inside its k-th wait()
\* holds the gen of round k, never that of an earlier round, and waiting
\* counts exactly the threads inside the round that is still open.
BarrierPhases ==
    /\ \A t, u \in BarrierThreads : Returned(t) <= Entered(u)
    /\ \A t \in BarrierThreads : bar_pc[t] # "loop" => gen[t] = ops_done[t]
    /\ waiting = Cardinality({t \in BarrierThreads :
                                bar_pc[t] # "loop" /\ gen[t] = generation})

\* C30 witness: a thread has returned from its first wait() and entered its
\* second, where it is parked with the gen of the second generation, while
\* another thread, woken, has not yet returned from its first.
BarrierPhasesWitness ==
    \E t, u \in BarrierThreads :
        /\ ops_done[t] = 1 /\ bar_pc[t] = "waiting" /\ gen[t] = 1
        /\ ops_done[u] = 0 /\ bar_pc[u] = "notified" /\ gen[u] = 0
        /\ waiting = 1

\* The scheduler of the barrier test: a worker that can take a step, entering
\* wait() or re-testing its predicate after a wake-up, eventually takes it.  A
\* spurious wake-up is never owed.
LiveBarrier == SpecBarrier /\ \A t \in BarrierThreads : WF_vars(BarrierStep(t))

\* Every worker has left its loop: the joins of RunTest return.
BarrierJoined ==
    \A t \in BarrierThreads :
        bar_pc[t] = "loop" /\ ops_done[t] = OperationsPerThread

\* C31: SimpleBarrier liveness.  When count threads each call wait() the
\* same number of times, every call that was entered eventually returns, all
\* threads eventually terminate and stay terminated, and whenever all have
\* terminated waiting is 0 and generation is the number of rounds.
BarrierTerminates ==
    /\ \A t \in BarrierThreads : (bar_pc[t] # "loop") ~> (bar_pc[t] = "loop")
    /\ <>[]BarrierJoined
    /\ [](BarrierJoined => waiting = 0 /\ generation = OperationsPerThread)

\* C31 witness: all the rounds have been run and every worker has returned
\* from its last wait(), some of them after parking in it.
BarrierTerminatesWitness ==
    /\ BarrierJoined
    /\ generation = OperationsPerThread
    /\ \E t \in BarrierThreads : gen[t] = OperationsPerThread - 1

====
